---- MODULE Spec2Model ----
(***************************************************************************)
(* polkadots: a dotfile manager.  Two revisions of the module are in the   *)
(* repository: polkadots/polkadots.py (rev "current": Symlink, Copy, Cat,  *)
(* Mkdir actions, paths based on a dotfile repository) and polkadots.py    *)
(* (rev "legacy": SymlinkAction only).  Both are modelled; an action       *)
(* object carries the revision of the class it was built from.             *)
(*                                                                         *)
(* The file system is a finite map from absolute paths (sequences of       *)
(* names, <<>> the root) to nodes: directories, regular files holding a    *)
(* sequence of chunks, and symbolic links holding a target.                *)
(***************************************************************************)
EXTENDS Integers, Sequences, FiniteSets, TLC

VARIABLES
    fs,       \* the file system: [existing paths -> node]
    pre,      \* the file system before the last execute()
    act,      \* the action whose execute() ran last (NoAction before any)
    ord,      \* the order in which os.listdir / glob.glob listed entries in it
    res,      \* its outcome: "ok" or the name of the exception it raised
    steps,    \* number of execute() calls so far (in this invocation of main)
    conf,     \* main: the configuration (dotfile_repo, action descriptors)
    opts,     \* main: the revision run and the command line flags
    pc,       \* main: "build", "exec", "done", "build_failed", "exec_failed"
    actions,  \* main: the list get_actions has built so far
    idx,      \* main: position of the next descriptor / action
    err,      \* main: the exception that ended the run ("ok" if none)
    run,      \* main: number of the current invocation of the tool
    fs0,      \* main: the file system when the current invocation started
    fs1,      \* main: the file system when the first invocation ended
    err1      \* main: the exception that ended the first invocation ("ok" if none)

vars == <<fs, pre, act, ord, res, steps, conf, opts, pc, actions, idx, err, run, fs0, fs1, err1>>

execVars == <<fs, pre, act, ord, res, steps>>
mainVars == <<conf, opts, pc, actions, idx, err, run, fs0, fs1, err1>>

-----------------------------------------------------------------------------
(* Bounds *)

\* how many symbolic links one path resolution follows before ELOOP
MaxLinkDepth == 3
\* how many execute() calls SpecExec applies in a row
MaxSteps == 2
\* how many descriptors a configuration holds
MaxActions == 2
\* how many times in a row the tool is invoked on the same configuration
MaxRuns == 2

-----------------------------------------------------------------------------
(* The file system *)

Root == <<>>

DirNode == [kind |-> "dir", data |-> <<>>, target |-> <<>>, rel |-> FALSE]
FileNode(d) == [kind |-> "file", data |-> d, target |-> <<>>, rel |-> FALSE]
\* rel: the target is relative to the directory holding the link
LinkNode(t, r) == [kind |-> "link", data |-> <<>>, target |-> t, rel |-> r]

Basename(p) == p[Len(p)]
Dirname(p) == SubSeq(p, 1, Len(p) - 1)

Children(f, p) == {q \in DOMAIN f : Len(q) = Len(p) + 1 /\ Dirname(q) = p}

\* Path resolution as the kernel does it: walk `rest` from the resolved
\* directory `cur`; `follow` says whether a link in the last component is
\* followed.  st is "ok" (p exists), "missing" (p does not exist, its parent
\* directory does), or the errno.
RECURSIVE Walk(_, _, _, _, _)
Walk(f, cur, rest, follow, fuel) ==
    IF rest = <<>> THEN [st |-> "ok", p |-> cur]
    ELSE LET q == Append(cur, Head(rest))
             more == Tail(rest)
         IN IF f[cur].kind # "dir" THEN [st |-> "ENOTDIR", p |-> cur]
            ELSE IF q \notin DOMAIN f
                 THEN [st |-> IF more = <<>> THEN "missing" ELSE "ENOENT", p |-> q]
            ELSE IF f[q].kind = "link"
                 THEN IF more = <<>> /\ ~follow THEN [st |-> "ok", p |-> q]
                      ELSE IF fuel = 0 THEN [st |-> "ELOOP", p |-> q]
                      ELSE Walk(f, IF f[q].rel THEN cur ELSE Root,
                                f[q].target \o more, follow, fuel - 1)
            ELSE Walk(f, q, more, follow, fuel)

Stat(f, p) == Walk(f, Root, p, TRUE, MaxLinkDepth)
LStat(f, p) == Walk(f, Root, p, FALSE, MaxLinkDepth)

\* the exception Python raises for a failed resolution
OSErrorOf(st) ==
    CASE st = "missing" -> "FileNotFoundError"
      [] st = "ENOENT" -> "FileNotFoundError"
      [] st = "ENOTDIR" -> "NotADirectoryError"
      [] OTHER -> "OSError"

os_path_islink(f, p) == LET w == LStat(f, p) IN w.st = "ok" /\ f[w.p].kind = "link"
os_path_lexists(f, p) == LStat(f, p).st = "ok"
os_path_exists(f, p) == Stat(f, p).st = "ok"
os_path_isdir(f, p) == LET w == Stat(f, p) IN w.st = "ok" /\ f[w.p].kind = "dir"
os_path_isfile(f, p) == LET w == Stat(f, p) IN w.st = "ok" /\ f[w.p].kind = "file"

\* the content read through p, <<>> when p is no readable file
ContentAt(f, p) == LET w == Stat(f, p) IN IF os_path_isfile(f, p) THEN f[w.p].data ELSE <<>>

Put(f, p, node) == [q \in DOMAIN f \cup {p} |-> IF q = p THEN node ELSE f[q]]
Drop(f, p) == [q \in DOMAIN f \ {p} |-> f[q]]

Ok(f) == [fs |-> f, err |-> "ok"]
Raise(f, e) == [fs |-> f, err |-> e]

\* os.listdir(p): the entry names, or the exception
os_listdir(f, p) ==
    LET w == Stat(f, p)
    IN IF w.st # "ok" THEN [err |-> OSErrorOf(w.st), names |-> {}]
       ELSE IF f[w.p].kind # "dir" THEN [err |-> "NotADirectoryError", names |-> {}]
       ELSE [err |-> "ok", names |-> {Basename(q) : q \in Children(f, w.p)}]

\* os.remove(p): unlink the entry itself (never what a link points at)
os_remove(f, p) ==
    LET w == LStat(f, p)
    IN IF w.st # "ok" THEN Raise(f, OSErrorOf(w.st))
       ELSE IF f[w.p].kind = "dir" THEN Raise(f, "IsADirectoryError")
       ELSE Ok(Drop(f, w.p))

\* os.symlink(target, p): create the link p -> target; p must not exist
os_symlink(f, target, isRel, p) ==
    LET w == LStat(f, p)
    IN IF w.st = "ok" THEN Raise(f, "FileExistsError")
       ELSE IF w.st = "missing" THEN Ok(Put(f, w.p, LinkNode(target, isRel)))
       ELSE Raise(f, OSErrorOf(w.st))

\* open(p, "wb"): follow links, create or truncate
open_wb(f, p) ==
    LET w == Stat(f, p)
    IN IF w.st = "missing" THEN Ok(Put(f, w.p, FileNode(<<>>)))
       ELSE IF w.st # "ok" THEN Raise(f, OSErrorOf(w.st))
       ELSE IF f[w.p].kind = "dir" THEN Raise(f, "IsADirectoryError")
       ELSE Ok(Put(f, w.p, FileNode(<<>>)))

\* open(p, "rb").read()
read_rb(f, p) ==
    LET w == Stat(f, p)
    IN IF w.st # "ok" THEN [err |-> OSErrorOf(w.st), data |-> <<>>]
       ELSE IF f[w.p].kind = "dir" THEN [err |-> "IsADirectoryError", data |-> <<>>]
       ELSE [err |-> "ok", data |-> f[w.p].data]

\* the bytes written to an open file land in the file p resolves to
WriteAt(f, p, d) == Put(f, Stat(f, p).p, FileNode(d))

\* os.mkdir(p)
os_mkdir(f, p) ==
    LET w == LStat(f, p)
    IN IF w.st = "ok" THEN Raise(f, "FileExistsError")
       ELSE IF w.st = "missing" THEN Ok(Put(f, w.p, DirNode))
       ELSE Raise(f, OSErrorOf(w.st))

\* pathlib.Path.mkdir(parents, exist_ok)
RECURSIVE Path_mkdir(_, _, _, _)
Path_mkdir(f, p, parents, exist_ok) ==
    LET r == os_mkdir(f, p)
    IN IF r.err = "ok" THEN r
       ELSE IF r.err = "FileNotFoundError"
            THEN IF ~parents \/ p = Root THEN r
                 ELSE LET up == Path_mkdir(f, Dirname(p), TRUE, TRUE)
                      IN IF up.err # "ok" THEN up
                         ELSE Path_mkdir(up.fs, p, FALSE, exist_ok)
       ELSE IF ~exist_ok \/ ~os_path_isdir(f, p) THEN r
       ELSE Ok(f)

\* os.path.samefile as shutil._samefile uses it: False when either stat fails
SameFile(f, p, q) ==
    LET a == Stat(f, p)
        b == Stat(f, q)
    IN a.st = "ok" /\ b.st = "ok" /\ a.p = b.p

\* shutil.copy(src, dst): into dst/basename(src) when dst is a directory;
\* the source is opened before the destination
shutil_copy(f, src, dst) ==
    LET to == IF os_path_isdir(f, dst) THEN Append(dst, Basename(src)) ELSE dst
        rd == read_rb(f, src)
        wr == open_wb(f, to)
    IN IF SameFile(f, src, to) THEN Raise(f, "SameFileError")
       ELSE IF rd.err # "ok" THEN Raise(f, rd.err)
       ELSE IF wr.err # "ok" THEN Raise(f, wr.err)
       ELSE Ok(WriteAt(wr.fs, to, rd.data))

-----------------------------------------------------------------------------
(* The actions.  Every execute returns [fs, err]: the file system it leaves *)
(* and "ok" or the exception that ended it.                                 *)

\* Faulty variant of rmlink: whatever is at the path is removed, link or not.
rmlink_clobbering(f, link, ignore_absent) ==
    IF os_path_lexists(f, link) THEN Ok(Drop(f, LStat(f, link).p))
    ELSE IF ~ignore_absent THEN Raise(f, "KeyError") ELSE Ok(f)

\* Faulty variant of rmlink: an absent path is an error whatever the flag.
rmlink_strict(f, link, ignore_absent) ==
    IF os_path_islink(f, link) THEN os_remove(f, link)
    ELSE IF ~os_path_exists(f, link) THEN Raise(f, "KeyError")
    ELSE Raise(f, "NotALink")

\* rmlink of polkadots/polkadots.py.  The FileNotFoundError message is built
\* with "{link} ...".format(link): a named field and a positional argument,
\* so building the message raises KeyError before anything else is raised.
rmlink(f, link, ignore_absent) ==
    IF os_path_islink(f, link) THEN os_remove(f, link)
    ELSE IF ~os_path_exists(f, link)
         THEN IF ~ignore_absent THEN Raise(f, "KeyError") ELSE Ok(f)
    ELSE Raise(f, "NotALink")

\* rmlink of polkadots.py (legacy)
rmlink_legacy(f, link, ignore_absent) ==
    IF os_path_exists(f, link) /\ os_path_islink(f, link) THEN os_remove(f, link)
    ELSE IF ~os_path_exists(f, link)
         THEN IF ~ignore_absent THEN Raise(f, "FileNotFoundError") ELSE Ok(f)
    ELSE Raise(f, "NotALinkError")

\* Faulty variant of symlink_replacing: a regular file in the way is removed
\* like a link.
symlink_replacing_forcing(f, src, dest) ==
    LET w == LStat(f, dest)
        r == IF w.st = "ok" /\ f[w.p].kind = "file" THEN os_remove(f, dest)
             ELSE rmlink(f, dest, TRUE)
    IN IF r.err # "ok" THEN r ELSE os_symlink(r.fs, src, FALSE, dest)

\* symlink_replacing, the closure of SymlinkAction.execute
symlink_replacing(f, src, dest) ==
    LET r == rmlink(f, dest, TRUE)
    IN IF r.err # "ok" THEN r ELSE os_symlink(r.fs, src, FALSE, dest)

\* Faulty variant of the dir_mode loop: after an entry has failed the loop
\* goes on with the remaining entries, the error being raised at the end.
RECURSIVE SymlinkEach_going_on(_, _, _, _)
SymlinkEach_going_on(f, srcdir, destdir, names) ==
    IF names = <<>> THEN Ok(f)
    ELSE LET r == symlink_replacing(f, Append(srcdir, Head(names)),
                                    Append(destdir, Head(names)))
             rest == SymlinkEach_going_on(r.fs, srcdir, destdir, Tail(names))
         IN IF r.err # "ok" THEN Raise(rest.fs, r.err) ELSE rest

\* for n in names: symlink_replacing(srcdir / n, destdir / n)
RECURSIVE SymlinkEach(_, _, _, _)
SymlinkEach(f, srcdir, destdir, names) ==
    IF names = <<>> THEN Ok(f)
    ELSE LET r == symlink_replacing(f, Append(srcdir, Head(names)),
                                    Append(destdir, Head(names)))
         IN IF r.err # "ok" THEN r
            ELSE SymlinkEach(r.fs, srcdir, destdir, Tail(names))

\* a pattern is magic when its last component is "*"
HasMagic(p) == p # <<>> /\ Basename(p) = "*"

\* glob.glob(pattern): the names matched in the pattern's directory (hidden
\* names are never matched by "*"; a literal pattern matches itself when it
\* exists, links not followed; a directory that cannot be listed matches nothing)
glob_names(f, pattern) ==
    IF pattern = <<>> THEN {}
    ELSE IF HasMagic(pattern)
         THEN LET l == os_listdir(f, Dirname(pattern))
              IN IF l.err = "ok" THEN l.names ELSE {}
    ELSE IF os_path_lexists(f, pattern) THEN {Basename(pattern)} ELSE {}

\* SymlinkAction.execute of polkadots/polkadots.py; o is the order in which
\* os.listdir or glob.glob returned the names
SymlinkAction_execute(f, a, o) ==
    IF a.dir_mode
    THEN LET l == os_listdir(f, a.source)
         IN IF l.err # "ok" THEN Raise(f, l.err)
            ELSE SymlinkEach(f, a.source, a.destination, o)
    ELSE LET is_dir == os_path_isdir(f, a.destination)
                          /\ ~os_path_islink(f, a.destination)
         IN IF is_dir THEN SymlinkEach(f, Dirname(a.source), a.destination, o)
            ELSE symlink_replacing(f, a.source, a.destination)

\* the dir_mode loop of polkadots.py (legacy): the guard is applied to the
\* destination directory itself, and the link target is the bare entry name
RECURSIVE LegacySymlinkEach(_, _, _)
LegacySymlinkEach(f, destination, names) ==
    IF names = <<>> THEN Ok(f)
    ELSE LET r == rmlink_legacy(f, destination, TRUE)
         IN IF r.err # "ok" THEN r
            ELSE LET s == os_symlink(r.fs, <<Head(names)>>, TRUE,
                                     Append(destination, Head(names)))
                 IN IF s.err # "ok" THEN s
                    ELSE LegacySymlinkEach(s.fs, destination, Tail(names))

\* SymlinkAction.execute of polkadots.py (legacy)
SymlinkAction_execute_legacy(f, a, o) ==
    IF a.dir_mode
    THEN LET l == os_listdir(f, a.source)
         IN IF l.err # "ok" THEN Raise(f, l.err)
            ELSE LegacySymlinkEach(f, a.destination, o)
    ELSE LET r == rmlink_legacy(f, a.destination, TRUE)
         IN IF r.err # "ok" THEN r
            ELSE os_symlink(r.fs, a.source, FALSE, a.destination)

\* Faulty variant of the copy loop: the overwrite flag is not consulted, a
\* file is copied whether or not its destination exists.
RECURSIVE CopyEach_never_skipping(_, _, _)
CopyEach_never_skipping(f, a, files) ==
    IF files = <<>> THEN Ok(f)
    ELSE LET r == shutil_copy(f, Head(files), a.destination)
         IN IF r.err # "ok" THEN r ELSE CopyEach_never_skipping(r.fs, a, Tail(files))

\* Faulty variant of the copy loop: an existing destination is skipped even
\* when overwrite is set.
RECURSIVE CopyEach_always_skipping(_, _, _)
CopyEach_always_skipping(f, a, files) ==
    IF files = <<>> THEN Ok(f)
    ELSE LET file == Head(files)
             skip == IF os_path_isdir(f, a.destination)
                     THEN os_path_exists(f, Append(a.destination, Basename(file)))
                     ELSE os_path_exists(f, a.destination)
         IN IF skip THEN CopyEach_always_skipping(f, a, Tail(files))
            ELSE LET r == shutil_copy(f, file, a.destination)
                 IN IF r.err # "ok" THEN r
                    ELSE CopyEach_always_skipping(r.fs, a, Tail(files))

\* the loop of CopyAction.execute over the files to copy
RECURSIVE CopyEach(_, _, _)
CopyEach(f, a, files) ==
    IF files = <<>> THEN Ok(f)
    ELSE LET file == Head(files)
             skip == IF os_path_isdir(f, a.destination)
                     THEN os_path_exists(f, Append(a.destination, Basename(file)))
                              /\ ~a.overwrite
                     ELSE os_path_exists(f, a.destination) /\ ~a.overwrite
         IN IF skip THEN CopyEach(f, a, Tail(files))
            ELSE LET r == shutil_copy(f, file, a.destination)
                 IN IF r.err # "ok" THEN r ELSE CopyEach(r.fs, a, Tail(files))

\* CopyAction.execute
CopyAction_execute(f, a, o) ==
    IF a.dir_mode
    THEN LET l == os_listdir(f, a.source)
         IN IF l.err # "ok" THEN Raise(f, l.err)
            ELSE CopyEach(f, a, [i \in 1..Len(o) |-> Append(a.source, o[i])])
    ELSE CopyEach(f, a, <<a.source>>)

\* Faulty variant of MkdirAction.execute: the parents flag is not passed on.
MkdirAction_execute_flat(f, a) == Path_mkdir(f, a.directory, FALSE, TRUE)

\* MkdirAction.execute
MkdirAction_execute(f, a) == Path_mkdir(f, a.directory, a.parents, TRUE)

\* the loop of CatAction.execute: read the sources in order until one fails.
\* out is a buffered writer: what was written reaches the file when it is
\* closed, so every read sees the file system as the open left it.
RECURSIVE CatRead(_, _, _)
CatRead(f, sources, acc) ==
    IF sources = <<>> THEN [err |-> "ok", data |-> acc]
    ELSE LET r == read_rb(f, Head(sources))
         IN IF r.err # "ok" THEN [err |-> r.err, data |-> acc]
            ELSE CatRead(f, Tail(sources), acc \o r.data)

\* CatAction.execute: the destination is opened (created or truncated)
\* first; leaving the with block closes it, also when a read raised
CatAction_execute(f, a) ==
    LET w == open_wb(f, a.destination)
    IN IF w.err # "ok" THEN w
       ELSE LET r == CatRead(w.fs, a.sources, <<>>)
            IN [fs |-> WriteAt(w.fs, a.destination, r.data), err |-> r.err]

\* what execute lists with os.listdir or glob.glob, in an order the
\* operating system chooses
Listing(f, a) ==
    CASE a.type = "CopyAction" ->
            IF a.dir_mode THEN os_listdir(f, a.source).names ELSE {}
      [] a.type = "SymlinkAction" /\ a.dir_mode -> os_listdir(f, a.source).names
      [] a.type = "SymlinkAction" /\ a.rev = "current" ->
            IF os_path_isdir(f, a.destination) /\ ~os_path_islink(f, a.destination)
            THEN glob_names(f, a.source) ELSE {}
      [] OTHER -> {}

RECURSIVE Orders(_)
Orders(S) ==
    IF S = {} THEN {<<>>}
    ELSE UNION {{<<x>> \o t : t \in Orders(S \ {x})} : x \in S}

\* action.execute(), by class and revision
execute(f, a, o) ==
    CASE a.type = "SymlinkAction" /\ a.rev = "current" -> SymlinkAction_execute(f, a, o)
      [] a.type = "SymlinkAction" /\ a.rev = "legacy" -> SymlinkAction_execute_legacy(f, a, o)
      [] a.type = "CopyAction" -> CopyAction_execute(f, a, o)
      [] a.type = "CatAction" -> CatAction_execute(f, a)
      [] a.type = "MkdirAction" -> MkdirAction_execute(f, a)

-----------------------------------------------------------------------------
(* The file systems and the action objects the executes are applied to *)

Repo == <<"repo">>
Home == <<"home">>
RepoA == <<"repo", "a">>
RepoB == <<"repo", "b">>
RepoS == <<"repo", "s">>
RepoSA == <<"repo", "s", "a">>
RepoSC == <<"repo", "s", "c">>
RepoM == <<"repo", "m">>
RepoGlob == <<"repo", "*">>
HomeD == <<"home", "d">>
HomeDA == <<"home", "d", "a">>
HomeXY == <<"home", "x", "y">>

\* the dotfile repository holds a ("foo"), b ("bar") and the directory s
\* with a ("qux") and c ("baz"); m does not exist; home is the (empty)
\* deployment target
BaseFS ==
    (Root :> DirNode) @@ (Repo :> DirNode) @@ (Home :> DirNode)
    @@ (RepoA :> FileNode(<<"foo">>)) @@ (RepoB :> FileNode(<<"bar">>))
    @@ (RepoS :> DirNode) @@ (RepoSA :> FileNode(<<"qux">>))
    @@ (RepoSC :> FileNode(<<"baz">>))

\* what the user has at home/d before the tool runs: nothing, a regular
\* file, an empty directory, or a directory holding a regular file a
InitialFS ==
    { BaseFS,
      BaseFS @@ (HomeD :> FileNode(<<"old">>)),
      BaseFS @@ (HomeD :> DirNode),
      BaseFS @@ (HomeD :> DirNode) @@ (HomeDA :> FileNode(<<"old">>)) }

NoAction == [type |-> "none", rev |-> "none"]

SymlinkActions ==
    { [type |-> "SymlinkAction", rev |-> "current", source |-> s, destination |-> d,
       dir_mode |-> m] :
         s \in {RepoA, RepoM, Repo, RepoS, RepoGlob}, d \in {HomeD, HomeDA},
         m \in BOOLEAN }

LegacySymlinkActions ==
    { [type |-> "SymlinkAction", rev |-> "legacy", source |-> s, destination |-> d,
       dir_mode |-> m] :
         s \in {RepoA, RepoM, Repo, RepoS}, d \in {HomeD, HomeDA}, m \in BOOLEAN }

CopyActions ==
    { [type |-> "CopyAction", rev |-> "current", source |-> s, destination |-> d,
       dir_mode |-> m, overwrite |-> w] :
         s \in {RepoA, RepoB, RepoM, Repo, RepoS}, d \in {HomeD, HomeDA},
         m \in BOOLEAN, w \in BOOLEAN }

CatSources ==
    { <<>>, <<RepoA>>, <<RepoA, RepoB, RepoSC>>, <<RepoA, RepoM, RepoSC>>,
      <<HomeD, RepoA>> }

CatActions ==
    { [type |-> "CatAction", rev |-> "current", sources |-> s, destination |-> d] :
         s \in CatSources, d \in {HomeD, HomeDA} }

MkdirActions ==
    { [type |-> "MkdirAction", rev |-> "current", directory |-> d, parents |-> p] :
         d \in {HomeD, HomeXY}, p \in BOOLEAN }

-----------------------------------------------------------------------------
(* SpecExec: execute() of any action, applied to the file system as the    *)
(* executes before it left it                                              *)

MainIdle ==
    /\ conf = [dotfile_repo |-> <<>>, actions |-> <<>>]
    /\ opts = [rev |-> "none", dry_run |-> FALSE]
    /\ pc = "idle"
    /\ actions = <<>>
    /\ idx = 0
    /\ err = "ok"
    /\ run = 0
    /\ fs0 = fs
    /\ fs1 = fs
    /\ err1 = "ok"

InitExec ==
    /\ fs \in InitialFS
    /\ pre = fs
    /\ act = NoAction
    /\ ord = <<>>
    /\ res = "ok"
    /\ steps = 0
    /\ MainIdle

Apply(a, o) ==
    LET r == execute(fs, a, o)
    IN /\ fs' = r.fs
       /\ pre' = fs
       /\ act' = a
       /\ ord' = o
       /\ res' = r.err
       /\ steps' = steps + 1

SymlinkExecute ==
    /\ steps < MaxSteps
    /\ \E a \in SymlinkActions : \E o \in Orders(Listing(fs, a)) : Apply(a, o)
    /\ UNCHANGED mainVars

LegacySymlinkExecute ==
    /\ steps < MaxSteps
    /\ \E a \in LegacySymlinkActions : \E o \in Orders(Listing(fs, a)) : Apply(a, o)
    /\ UNCHANGED mainVars

CopyExecute ==
    /\ steps < MaxSteps
    /\ \E a \in CopyActions : \E o \in Orders(Listing(fs, a)) : Apply(a, o)
    /\ UNCHANGED mainVars

CatExecute ==
    /\ steps < MaxSteps
    /\ \E a \in CatActions : Apply(a, <<>>)
    /\ UNCHANGED mainVars

MkdirExecute ==
    /\ steps < MaxSteps
    /\ \E a \in MkdirActions : Apply(a, <<>>)
    /\ UNCHANGED mainVars

NextExec ==
    \/ SymlinkExecute
    \/ LegacySymlinkExecute
    \/ CopyExecute
    \/ CatExecute
    \/ MkdirExecute

SpecExec == InitExec /\ [][NextExec]_vars

-----------------------------------------------------------------------------
(* SpecGuard: rmlink called on its own, with either value of ignore_absent, *)
(* on a path that is absent, a regular file, a directory or a link          *)

\* home/d as in InitialFS, or a link to a file, to nothing, or to a directory
GuardFS ==
    InitialFS \cup { BaseFS @@ (HomeD :> LinkNode(t, FALSE)) : t \in {RepoA, RepoM, RepoS} }

GuardPaths == {HomeD, HomeDA, HomeXY, RepoA}

InitGuard ==
    /\ fs \in GuardFS
    /\ pre = fs
    /\ act = NoAction
    /\ ord = <<>>
    /\ res = "ok"
    /\ steps = 0
    /\ MainIdle

\* the call rev's rmlink(link, ignore_absent) returned r
Called(rev, link, ignore_absent, r) ==
    /\ fs' = r.fs
    /\ pre' = fs
    /\ act' = [type |-> "rmlink", rev |-> rev, link |-> link,
               ignore_absent |-> ignore_absent]
    /\ ord' = <<>>
    /\ res' = r.err
    /\ steps' = steps + 1

RmlinkCall ==
    /\ steps < MaxSteps
    /\ \E link \in GuardPaths, ia \in BOOLEAN :
          Called("current", link, ia, rmlink(fs, link, ia))
    /\ UNCHANGED mainVars

LegacyRmlinkCall ==
    /\ steps < MaxSteps
    /\ \E link \in GuardPaths, ia \in BOOLEAN :
          Called("legacy", link, ia, rmlink_legacy(fs, link, ia))
    /\ UNCHANGED mainVars

NextGuard ==
    \/ RmlinkCall
    \/ LegacyRmlinkCall

SpecGuard == InitGuard /\ [][NextGuard]_vars

-----------------------------------------------------------------------------
(* Building the actions from the configuration *)

\* a path as written in a configuration: absolute or relative components
Abs(p) == [abs |-> TRUE, comps |-> p]
Rel(p) == [abs |-> FALSE, comps |-> p]

\* os.path.expandvars: $HOME is set to /home
expandvars(p) ==
    IF ~p.abs /\ p.comps # <<>> /\ Head(p.comps) = "$HOME"
    THEN Abs(Home \o Tail(p.comps)) ELSE p

\* os.path.expanduser / Path.expanduser: a leading ~ is the home directory
expanduser(p) ==
    IF ~p.abs /\ p.comps # <<>> /\ Head(p.comps) = "~"
    THEN Abs(Home \o Tail(p.comps)) ELSE p

\* get_intuitive_path of polkadots/polkadots.py: the base is resolved
\* strictly (it must exist) whether or not the path is relative
get_intuitive_path(f, path, base) ==
    LET b == expanduser(expandvars(base))
        w == Stat(f, b.comps)
        normpath == expanduser(expandvars(path))
    IN IF w.st # "ok" THEN [err |-> "FileNotFoundError", path |-> <<>>]
       ELSE [err |-> "ok",
             path |-> IF normpath.abs THEN normpath.comps ELSE w.p \o normpath.comps]

\* the working directory the legacy tool is started in
Cwd == Repo

\* get_intuitive_path of polkadots.py (legacy): os.path.abspath, nothing is
\* looked up in the file system
get_intuitive_path_legacy(path) ==
    LET normpath == expanduser(expandvars(path))
    IN IF normpath.abs THEN normpath.comps ELSE Cwd \o normpath.comps

Has(d, k) == k \in DOMAIN d

Built(a) == [err |-> "ok", action |-> a]
Failed(e) == [err |-> e, action |-> NoAction]

\* SymlinkAction.__init__(self, dotfile_repo, source, destination,
\*                        dir_mode=False, **args)
SymlinkAction_init(f, repo, kw) ==
    IF ~Has(kw, "source") \/ ~Has(kw, "destination") THEN Failed("TypeError")
    ELSE LET s == get_intuitive_path(f, kw.source, repo)
             d == get_intuitive_path(f, kw.destination, repo)
         IN IF s.err # "ok" THEN Failed(s.err)
            ELSE Built([type |-> "SymlinkAction", rev |-> "current",
                        source |-> s.path, destination |-> d.path,
                        dir_mode |-> IF Has(kw, "dir_mode") THEN kw.dir_mode ELSE FALSE])

\* CopyAction.__init__(self, dotfile_repo, source, destination,
\*                     dir_mode=False, overwrite=False, **kwargs)
CopyAction_init(f, repo, kw) ==
    IF ~Has(kw, "source") \/ ~Has(kw, "destination") THEN Failed("TypeError")
    ELSE LET s == get_intuitive_path(f, kw.source, repo)
             d == get_intuitive_path(f, kw.destination, repo)
         IN IF s.err # "ok" THEN Failed(s.err)
            ELSE Built([type |-> "CopyAction", rev |-> "current",
                        source |-> s.path, destination |-> d.path,
                        dir_mode |-> IF Has(kw, "dir_mode") THEN kw.dir_mode ELSE FALSE,
                        overwrite |-> IF Has(kw, "overwrite") THEN kw.overwrite ELSE FALSE])

\* MkdirAction.__init__(self, dotfile_repo, directory, parents=True): no
\* **kwargs, so any other keyword is a TypeError
MkdirAction_init(f, repo, kw) ==
    IF ~Has(kw, "directory") \/ DOMAIN kw \ {"directory", "parents"} # {}
    THEN Failed("TypeError")
    ELSE LET d == get_intuitive_path(f, kw.directory, repo)
         IN IF d.err # "ok" THEN Failed(d.err)
            ELSE Built([type |-> "MkdirAction", rev |-> "current",
                        directory |-> d.path,
                        parents |-> IF Has(kw, "parents") THEN kw.parents ELSE TRUE])

\* CatAction.__init__(self, dotfile_repo, destination, *sources, **args):
\* the sources are the positional arguments after the destination; a
\* keyword named sources lands in **args and is dropped
CatAction_init(f, repo, kw, pos) ==
    IF ~Has(kw, "destination") THEN Failed("TypeError")
    ELSE LET d == get_intuitive_path(f, kw.destination, repo)
         IN IF d.err # "ok" THEN Failed(d.err)
            ELSE Built([type |-> "CatAction", rev |-> "current",
                        sources |-> [i \in 1..Len(pos) |->
                                        get_intuitive_path(f, pos[i], repo).path],
                        destination |-> d.path])

\* SymlinkAction.__init__(self, **args) of polkadots.py (legacy)
SymlinkAction_init_legacy(kw) ==
    IF ~Has(kw, "source") \/ ~Has(kw, "destination") THEN Failed("KeyError")
    ELSE Built([type |-> "SymlinkAction", rev |-> "legacy",
                source |-> get_intuitive_path_legacy(kw.source),
                destination |-> get_intuitive_path_legacy(kw.destination),
                dir_mode |-> IF Has(kw, "dir_mode") THEN kw.dir_mode ELSE FALSE])

\* the names of the module namespace that are Action subclasses
ActionClasses(rev) ==
    IF rev = "legacy" THEN {"SymlinkAction"}
    ELSE {"SymlinkAction", "CopyAction", "CatAction", "MkdirAction"}

\* other callables of the module namespace (both revisions define rmlink)
OtherModuleNames == {"rmlink"}

\* one iteration of get_actions: klass = getattr(module, action["type"]);
\* klass(dotfile_repo=dotfile_repo, **action).  The descriptor is passed
\* whole, its type key included.  Any exception is logged and re-raised.
get_actions_step(f, rev, repo, d) ==
    IF ~Has(d, "type") THEN Failed("KeyError")
    ELSE IF d.type \in OtherModuleNames THEN Failed("TypeError")
    ELSE IF d.type \notin ActionClasses(rev) THEN Failed("AttributeError")
    ELSE IF rev = "legacy" THEN SymlinkAction_init_legacy(d)
    ELSE CASE d.type = "SymlinkAction" -> SymlinkAction_init(f, repo, d)
           [] d.type = "CopyAction" -> CopyAction_init(f, repo, d)
           [] d.type = "MkdirAction" -> MkdirAction_init(f, repo, d)
           [] d.type = "CatAction" -> CatAction_init(f, repo, d, <<>>)

WithoutKeys(d, ks) == [k \in DOMAIN d \ ks |-> d[k]]

\* load_conf2: config.py calls the constructors itself, each bound to the
\* dotfile repository with functools.partial; the fields are passed as
\* keywords, the sources of a CatAction positionally
load_conf2_step(f, repo, d) ==
    IF d.type \in OtherModuleNames \/ d.type \notin ActionClasses("current")
    THEN Failed("NameError")
    ELSE LET kw == WithoutKeys(d, {"type", "sources"})
         IN CASE d.type = "SymlinkAction" -> SymlinkAction_init(f, repo, kw)
              [] d.type = "CopyAction" -> CopyAction_init(f, repo, kw)
              [] d.type = "MkdirAction" -> MkdirAction_init(f, repo, kw)
              [] d.type = "CatAction" ->
                    CatAction_init(f, repo, kw,
                                   IF Has(d, "sources") THEN d.sources ELSE <<>>)

-----------------------------------------------------------------------------
(* Spec: main().  The configuration is read once; get_actions builds the   *)
(* whole list; the loop executes it in order.  The tool may be invoked     *)
(* again on the same configuration.                                        *)

Descriptors ==
    { [type |-> "SymlinkAction", source |-> Rel(<<"a">>), destination |-> Rel(<<"~", "d">>)],
      [type |-> "SymlinkAction", source |-> Rel(<<"m">>), destination |-> Abs(HomeD)],
      [type |-> "SymlinkAction", source |-> Rel(<<>>), destination |-> Abs(HomeD),
       dir_mode |-> TRUE],
      [type |-> "SymlinkAction", destination |-> Abs(HomeD)],
      [type |-> "CopyAction", source |-> Rel(<<"a">>), destination |-> Rel(<<"$HOME", "d">>)],
      [type |-> "CopyAction", source |-> Rel(<<"b">>), destination |-> Abs(HomeD),
       overwrite |-> TRUE],
      [type |-> "CopyAction", source |-> Rel(<<"a">>), destination |-> Rel(<<"b">>),
       overwrite |-> TRUE],
      [type |-> "CatAction", destination |-> Abs(HomeD),
       sources |-> <<Rel(<<"a">>), Rel(<<"b">>)>>],
      [type |-> "MkdirAction", directory |-> Abs(HomeD)],
      [type |-> "DoesNotExist"],
      [type |-> "rmlink"] }

RECURSIVE SeqsUpTo(_, _)
SeqsUpTo(S, n) ==
    IF n = 0 THEN {<<>>}
    ELSE LET shorter == SeqsUpTo(S, n - 1)
         IN shorter \cup {Append(t, x) : t \in shorter, x \in S}

Configs ==
    { [dotfile_repo |-> r, actions |-> l] :
         r \in {Abs(Repo), Abs(<<"nowhere">>)}, l \in SeqsUpTo(Descriptors, MaxActions) }

\* polkadots.py has neither --dry-run nor --config2
Options ==
    { [rev |-> "legacy", dry_run |-> FALSE, config2 |-> FALSE] }
    \cup { [rev |-> "current", dry_run |-> d, config2 |-> c] : d, c \in BOOLEAN }

Init ==
    /\ fs \in InitialFS
    /\ pre = fs
    /\ act = NoAction
    /\ ord = <<>>
    /\ res = "ok"
    /\ steps = 0
    /\ conf \in Configs
    /\ opts \in Options
    /\ pc = "build"
    /\ actions = <<>>
    /\ idx = 1
    /\ err = "ok"
    /\ run = 1
    /\ fs0 = fs
    /\ fs1 = fs
    /\ err1 = "ok"

\* Faulty variant of the constructors: the action is carried out as soon as
\* it is constructed.
ConstructorEffect_eager(f, a) ==
    IF a = NoAction THEN f
    ELSE execute(f, a, CHOOSE o \in Orders(Listing(f, a)) : TRUE).fs

\* what constructing an action does to the file system: the constructors
\* resolve and store paths, nothing is created, removed or written
ConstructorEffect(f, a) == f

\* one iteration of the loop that builds the actions (get_actions, or the
\* constructor calls of config.py under --config2); an exception ends main
\* before anything was returned
BuildStep(f, o, c, i) ==
    IF o.config2 THEN load_conf2_step(f, c.dotfile_repo, c.actions[i])
    ELSE get_actions_step(f, o.rev, c.dotfile_repo, c.actions[i])

\* Faulty variant of the building loop: each new action is put in front of
\* the ones built before it.
GetActionsStep_prepending ==
    /\ pc = "build"
    /\ idx <= Len(conf.actions)
    /\ LET b == BuildStep(fs, opts, conf, idx)
       IN /\ fs' = ConstructorEffect(fs, b.action)
          /\ IF b.err = "ok"
             THEN /\ actions' = <<b.action>> \o actions
                  /\ idx' = idx + 1
                  /\ UNCHANGED <<pc, err>>
             ELSE /\ actions' = <<>>
                  /\ pc' = "build_failed"
                  /\ err' = b.err
                  /\ UNCHANGED idx
    /\ UNCHANGED <<pre, act, ord, res, steps, conf, opts, run, fs0, fs1, err1>>

GetActionsStep ==
    /\ pc = "build"
    /\ idx <= Len(conf.actions)
    /\ LET b == BuildStep(fs, opts, conf, idx)
       IN /\ fs' = ConstructorEffect(fs, b.action)
          /\ IF b.err = "ok"
             THEN /\ actions' = Append(actions, b.action)
                  /\ idx' = idx + 1
                  /\ UNCHANGED <<pc, err>>
             ELSE /\ actions' = <<>>
                  /\ pc' = "build_failed"
                  /\ err' = b.err
                  /\ UNCHANGED idx
    /\ UNCHANGED <<pre, act, ord, res, steps, conf, opts, run, fs0, fs1, err1>>

\* get_actions returns the list; main enters its loop
GetActionsReturn ==
    /\ pc = "build"
    /\ idx > Len(conf.actions)
    /\ pc' = "exec"
    /\ idx' = 1
    /\ UNCHANGED <<execVars, conf, opts, actions, err, run, fs0, fs1, err1>>

\* Faulty variant: the dry-run flag is not consulted.
Executes_always(o) == TRUE

\* whether the loop body of main calls execute
Executes(o) == ~o.dry_run

\* Faulty variant of the loop: an exception raised by execute is recorded
\* and the loop goes on with the next action.
ExecuteStep_continuing ==
    /\ pc = "exec"
    /\ idx <= Len(actions)
    /\ IF Executes(opts)
       THEN \E o \in Orders(Listing(fs, actions[idx])) :
               /\ Apply(actions[idx], o)
               /\ idx' = idx + 1
               /\ err' = execute(fs, actions[idx], o).err
               /\ UNCHANGED pc
       ELSE /\ idx' = idx + 1
            /\ UNCHANGED <<execVars, pc, err>>
    /\ UNCHANGED <<conf, opts, actions, run, fs0, fs1, err1>>

\* one iteration of main's loop over the actions
ExecuteStep ==
    /\ pc = "exec"
    /\ idx <= Len(actions)
    /\ IF Executes(opts)
       THEN \E o \in Orders(Listing(fs, actions[idx])) :
               /\ Apply(actions[idx], o)
               /\ IF execute(fs, actions[idx], o).err = "ok"
                  THEN /\ idx' = idx + 1
                       /\ UNCHANGED <<pc, err>>
                  ELSE /\ pc' = "exec_failed"
                       /\ err' = execute(fs, actions[idx], o).err
                       /\ UNCHANGED idx
       ELSE /\ idx' = idx + 1
            /\ UNCHANGED <<execVars, pc, err>>
    /\ UNCHANGED <<conf, opts, actions, run, fs0, fs1, err1>>

\* the loop is over: main returns
Finish ==
    /\ pc = "exec"
    /\ idx > Len(actions)
    /\ pc' = "done"
    /\ UNCHANGED <<execVars, conf, opts, actions, idx, err, run, fs0, fs1, err1>>

\* the tool is invoked again on the same configuration
Rerun ==
    /\ pc \in {"done", "build_failed", "exec_failed"}
    /\ run < MaxRuns
    /\ run' = run + 1
    /\ pc' = "build"
    /\ actions' = <<>>
    /\ idx' = 1
    /\ err' = "ok"
    /\ steps' = 0
    /\ fs0' = fs
    /\ fs1' = IF run = 1 THEN fs ELSE fs1
    /\ err1' = IF run = 1 THEN err ELSE err1
    /\ UNCHANGED <<fs, pre, act, ord, res, conf, opts>>

Next ==
    \/ GetActionsStep
    \/ GetActionsReturn
    \/ ExecuteStep
    \/ Finish
    \/ Rerun

Spec == Init /\ [][Next]_vars

-----------------------------------------------------------------------------
(* Properties *)

\* p is a regular file itself (not a link to one)
IsRegularFile(f, p) == LET w == LStat(f, p) IN w.st = "ok" /\ f[w.p].kind = "file"
\* p is a directory itself (not a link to one)
IsRealDir(f, p) == LET w == LStat(f, p) IN w.st = "ok" /\ f[w.p].kind = "dir"
\* nothing is at p, and the directory p would be created in exists
IsAbsent(f, p) == LStat(f, p).st = "missing"
\* p is a symbolic link with the absolute target t
IsLinkTo(f, p, t) ==
    LET w == LStat(f, p) IN w.st = "ok" /\ f[w.p] = LinkNode(t, FALSE)

NotALinkErrors == {"NotALink", "NotALinkError"}

SymlinkOnRegularFile ==
    act.type = "SymlinkAction" /\ IsRegularFile(pre, act.destination)

SecondRunEnded ==
    run = 2 /\ err1 = "ok" /\ pc \in {"done", "build_failed", "exec_failed"}

\* C2: idempotence.  Running the same action list a second time does not
\* fail and leaves the file system as the first run left it.
C2_Idempotent == SecondRunEnded => (pc = "done" /\ fs = fs1)

\* the dotfile repository is as it was before the tool ever ran
RepoUntouched ==
    \A p \in DOMAIN fs \cup DOMAIN BaseFS :
        (p # <<>> /\ Head(p) = "repo") => (p \in DOMAIN fs /\ p \in DOMAIN BaseFS /\ fs[p] = BaseFS[p])

\* C2 where it does hold: polkadots/polkadots.py, and no action has
\* written into the dotfile repository
C2_IdempotentCurrent == (opts.rev = "current" /\ RepoUntouched) => C2_Idempotent

\* the destination of the last action, as the file system f holds it:
\* absent, or the node that the path resolves to
DestState(f, p) ==
    LET w == Stat(f, p) IN IF w.st = "ok" THEN <<"present", f[w.p]>> ELSE <<"absent">>

RECURSIVE ConcatOf(_, _)
ConcatOf(f, sources) ==
    IF sources = <<>> THEN <<>>
    ELSE ContentAt(f, Head(sources)) \o ConcatOf(f, Tail(sources))

AllReadable(f, sources) == \A i \in 1..Len(sources) : os_path_isfile(f, sources[i])

\* C3: Concatenate atomicity.  When execute fails (reading a source
\* raised), the destination is as it was before the run (same content, or
\* absent); the other outcome the claim allows, the whole concatenation,
\* cannot be produced when a source could not be read.
C3_CatAtomic ==
    (act.type = "CatAction" /\ res # "ok") =>
        DestState(fs, act.destination) = DestState(pre, act.destination)

\* C4: Concatenate order.  When all sources are readable (and the
\* destination can be opened), the destination holds the contents the
\* sources had, in the order listed; with no sources it is empty.
C4_CatOrder ==
    (act.type = "CatAction" /\ AllReadable(pre, act.sources) /\ res = "ok") =>
        DestState(fs, act.destination) = <<"present", FileNode(ConcatOf(pre, act.sources))>>

\* C4 where it does hold: the destination is not itself one of the sources
C4_CatOrderDistinct ==
    (/\ act.type = "CatAction"
     /\ AllReadable(pre, act.sources)
     /\ \A i \in 1..Len(act.sources) : ~SameFile(pre, act.sources[i], act.destination)
     /\ res = "ok") =>
        DestState(fs, act.destination) = <<"present", FileNode(ConcatOf(pre, act.sources))>>


MissingActionErrors == {"MissingAction", "MissingActionError"}

\* get_actions raised on a descriptor whose type names no action class
UnknownTypeFailed ==
    /\ pc = "build_failed"
    /\ ~opts.config2
    /\ conf.actions[idx].type \notin ActionClasses(opts.rev)

\* C5: a descriptor whose type names no known action variant makes building
\* the action list fail with MissingActionError, and no action list (not
\* even a partial one) is returned.
C5_UnknownTypeMissingAction ==
    UnknownTypeFailed => (err \in MissingActionErrors /\ actions = <<>>)

\* the files the last CopyAction.execute went through
CopyFiles ==
    IF act.dir_mode THEN {Append(act.source, ord[i]) : i \in 1..Len(ord)}
    ELSE {act.source}

\* where shutil.copy puts a file, judged on the file system before the run
CopyTarget(file) ==
    IF os_path_isdir(pre, act.destination)
    THEN Append(act.destination, Basename(file)) ELSE act.destination

\* the files are copied to distinct places: one file, or into a directory
CopyIntoPlace ==
    /\ act.dir_mode => os_path_isdir(pre, act.destination)
    /\ act.dir_mode => os_listdir(pre, act.source).err = "ok"

\* no regular file that existed before the last execute was changed or removed
RegularFilesKept ==
    \A p \in DOMAIN pre : pre[p].kind = "file" => (p \in DOMAIN fs /\ fs[p] = pre[p])

\* C6: Copy default-skip.  With overwrite false, a file whose destination
\* already exists is skipped: the existing destination (and every other
\* existing file) keeps its content, the skip raises no error, and the
\* files whose destination does not exist yet are still copied (every such
\* file being a regular file in a place that can be written).
C6_CopySkipsExisting ==
    (act.type = "CopyAction" /\ ~act.overwrite) =>
        /\ RegularFilesKept
        /\ \A file \in CopyFiles :
              os_path_exists(pre, CopyTarget(file)) =>
                 DestState(fs, CopyTarget(file)) = DestState(pre, CopyTarget(file))
        /\ (/\ CopyIntoPlace
            /\ \A file \in CopyFiles :
                  \/ os_path_exists(pre, CopyTarget(file))
                  \/ /\ Stat(pre, CopyTarget(file)).st = "missing"
                     /\ os_path_isfile(pre, file)) =>
              /\ res = "ok"
              /\ \A file \in CopyFiles :
                    ~os_path_exists(pre, CopyTarget(file)) =>
                       /\ os_path_isfile(fs, CopyTarget(file))
                       /\ ContentAt(fs, CopyTarget(file)) = ContentAt(pre, file)

\* a directory-mode copy skipped one existing file and copied another
C6_Witness ==
    /\ act.type = "CopyAction" /\ ~act.overwrite /\ act.dir_mode
    /\ res = "ok"
    /\ \E file \in CopyFiles :
          /\ os_path_isfile(pre, CopyTarget(file))
          /\ ContentAt(pre, CopyTarget(file)) # ContentAt(pre, file)
          /\ ContentAt(fs, CopyTarget(file)) = ContentAt(pre, CopyTarget(file))
    /\ \E file \in CopyFiles :
          /\ ~os_path_exists(pre, CopyTarget(file))
          /\ ContentAt(fs, CopyTarget(file)) = ContentAt(pre, file)

\* C7: Copy overwrite.  With overwrite true every file is copied: an
\* existing destination file (the destination itself, or the same basename
\* in a destination directory) ends up with the content of the source.
\* shutil.copy refuses only to copy a file onto itself.
C7_CopyOverwrites ==
    (act.type = "CopyAction" /\ act.overwrite /\ CopyIntoPlace) =>
        /\ (\A file \in CopyFiles :
               /\ os_path_isfile(pre, file)
               /\ os_path_isfile(pre, CopyTarget(file)) \/ Stat(pre, CopyTarget(file)).st = "missing"
               /\ ~SameFile(pre, file, CopyTarget(file))) => res = "ok"
        /\ res = "ok" =>
              \A file \in CopyFiles :
                 /\ os_path_isfile(fs, CopyTarget(file))
                 /\ ContentAt(fs, CopyTarget(file)) = ContentAt(pre, file)

\* an existing file with other content was overwritten
C7_Witness ==
    /\ act.type = "CopyAction" /\ act.overwrite /\ ~act.dir_mode
    /\ res = "ok"
    /\ IsRegularFile(pre, act.destination)
    /\ ContentAt(pre, act.destination) = <<"old">>
    /\ ContentAt(fs, act.destination) = ContentAt(pre, act.source)
    /\ ContentAt(pre, act.source) = <<"bar">>


\* a directory-mode Symlink action ran on a listable source directory and
\* an existing, empty, real destination directory
DirModeOnEmptyDir ==
    /\ act.type = "SymlinkAction" /\ act.dir_mode
    /\ os_listdir(pre, act.source).err = "ok"
    /\ IsRealDir(pre, act.destination)
    /\ Children(pre, LStat(pre, act.destination).p) = {}

\* the file system before the last execute plus, for every entry name n of
\* the source, the link destination/n -> source/n
WithLinks ==
    LET names == os_listdir(pre, act.source).names
        links == {Append(act.destination, n) : n \in names}
    IN [p \in DOMAIN pre \cup links |->
           IF p \in links THEN LinkNode(Append(act.source, Basename(p)), FALSE)
           ELSE pre[p]]

\* C8: directory-mode Symlink into an existing empty directory succeeds and
\* leaves exactly the links destination/n -> source/n, one for every entry
\* n of the source, whatever the order the entries were listed in; the
\* destination directory stays.
C8_DirModeLinksEveryEntry ==
    DirModeOnEmptyDir => (res = "ok" /\ fs = WithLinks)

\* C8 for polkadots/polkadots.py alone
C8_DirModeLinksEveryEntryCurrent ==
    act.rev = "current" => C8_DirModeLinksEveryEntry

C10_BuildBeforeMutation ==
    pc \in {"build", "build_failed"} => (steps = 0 /\ fs = fs0)

\* the second descriptor could not be built, the first one had been
C10_Witness ==
    /\ pc = "build_failed"
    /\ idx = 2
    /\ ~opts.dry_run
    /\ fs = fs0


\* the file systems that executing acts one after the other, each without
\* error, can leave when started on f
RECURSIVE AfterAll(_, _)
AfterAll(f, acts) ==
    IF acts = <<>> THEN {f}
    ELSE UNION { AfterAll(execute(f, Head(acts), o).fs, Tail(acts)) :
                   o \in {x \in Orders(Listing(f, Head(acts))) :
                             execute(f, Head(acts), x).err = "ok"} }

\* C11: fail-stop execution.  When the execute of the k-th action has
\* raised, the run has stopped with that error at position k, exactly k
\* executes were invoked, and the file system is what actions 1..k-1 left
\* (nothing rolled back) followed by whatever the failed execute did.
C11_FailStop ==
    (steps > 0 /\ res # "ok") =>
        /\ pc = "exec_failed"
        /\ err = res
        /\ idx = steps
        /\ act = actions[idx]
        /\ pre \in AfterAll(fs0, SubSeq(actions, 1, idx - 1))
        /\ fs = execute(pre, act, ord).fs

\* the second action failed after the first one had changed the file system
C11_Witness ==
    /\ pc = "exec_failed"
    /\ idx = 2
    /\ pre # fs0
    /\ fs = pre

\* C12: execution order equals declaration order.  The list of actions has
\* one action per descriptor, action i built from descriptor i; in a
\* non-dry run the executes are invoked in that order, execute i+1 starting
\* on the file system exactly as execute i left it.
C12_DeclarationOrder ==
    /\ pc \in {"exec", "done", "exec_failed"} => Len(actions) = Len(conf.actions)
    /\ pc = "build" => Len(actions) = idx - 1
    /\ \A i \in 1..Len(actions) : actions[i] = BuildStep(fs0, opts, conf, i).action
    /\ (pc = "exec" /\ ~opts.dry_run) => steps = idx - 1
    /\ steps > 0 =>
          /\ act = actions[steps]
          /\ pre \in AfterAll(fs0, SubSeq(actions, 1, steps - 1))
          /\ fs = execute(pre, act, ord).fs

\* two different actions were built and executed, both changing something
C12_Witness ==
    /\ pc = "done"
    /\ Len(actions) = 2
    /\ actions[1] # actions[2]
    /\ steps = 2
    /\ pre # fs0
    /\ fs # pre

\* C13: dry run mutates nothing.  With --dry-run no execute is invoked and
\* the file system stays as it was before the run, building the actions
\* included, for every action list.
C13_DryRunMutatesNothing ==
    opts.dry_run => (steps = 0 /\ act = NoAction /\ fs = fs0 /\ fs = fs1)

\* a dry run has gone through a list whose first action would have changed
\* the file system
C13_Witness ==
    /\ opts.dry_run
    /\ pc = "done"
    /\ Len(actions) = 2
    /\ \E o \in Orders(Listing(fs, actions[1])) :
          execute(fs, actions[1], o).err = "ok" /\ execute(fs, actions[1], o).fs # fs


NotFoundErrors == {"FileNotFoundError", "NotFoundError"}

\* rmlink was called on a path at which nothing exists, link or other
RmlinkOnAbsent == act.type = "rmlink" /\ ~os_path_lexists(pre, act.link)

\* C14: LinkGuard on an absent path.  rmlink called where nothing exists
\* succeeds silently when ignore_absent is true and fails with the
\* not-found error when it is false; the file system is unchanged in both
\* cases.
C14_RmlinkOnAbsent ==
    RmlinkOnAbsent =>
        /\ fs = pre
        /\ act.ignore_absent => res = "ok"
        /\ ~act.ignore_absent => res \in NotFoundErrors

\* C14 where it does hold: polkadots.py, or ignore_absent true
C14_RmlinkOnAbsentLegacyOrIgnoring ==
    (act.type = "rmlink" /\ (act.rev = "legacy" \/ act.ignore_absent)) => C14_RmlinkOnAbsent


\* the leading parts of path p, p itself included, the root excluded
Prefixes(p) == {SubSeq(p, 1, k) : k \in 1..Len(p)}

\* f with a directory at every leading part of p that does not exist in f
WithDirs(f, p) ==
    [q \in DOMAIN f \cup Prefixes(p) |-> IF q \in DOMAIN f THEN f[q] ELSE DirNode]

\* a parent directory of p is missing, the existing leading parts of p being
\* real directories
ParentMissing(f, p) ==
    /\ LStat(f, p).st = "ENOENT"
    /\ \A q \in Prefixes(p) \cap DOMAIN f : f[q].kind = "dir"

\* C15: MakeDirectory.  execute succeeds and changes nothing when the
\* directory exists; creates it when it is absent, with all missing parents
\* when parents is true; fails, changing nothing, when a non-directory
\* entry (a file, a link to a file, a dangling link) occupies the path, and
\* when parents is false and a parent is missing.
C15_Mkdir ==
    act.type = "MkdirAction" =>
        /\ os_path_isdir(pre, act.directory) => (res = "ok" /\ fs = pre)
        /\ IsAbsent(pre, act.directory) =>
              (res = "ok" /\ fs = Put(pre, LStat(pre, act.directory).p, DirNode))
        /\ (ParentMissing(pre, act.directory) /\ act.parents) =>
              (res = "ok" /\ fs = WithDirs(pre, act.directory))
        /\ (os_path_lexists(pre, act.directory) /\ ~os_path_isdir(pre, act.directory)) =>
              (res # "ok" /\ fs = pre)
        /\ (ParentMissing(pre, act.directory) /\ ~act.parents) =>
              (res = "FileNotFoundError" /\ fs = pre)

\* the directory and its missing parent have both been created
C15_Witness ==
    /\ act.type = "MkdirAction" /\ act.parents
    /\ ParentMissing(pre, act.directory)
    /\ res = "ok"
    /\ IsRealDir(fs, act.directory) /\ IsRealDir(fs, Dirname(act.directory))

\* a regular file occupies the path: the execute failed and the file is kept
C15_WitnessOccupied ==
    /\ act.type = "MkdirAction"
    /\ IsRegularFile(pre, act.directory)
    /\ res = "FileExistsError"
    /\ fs = pre


\* descriptor d names a known variant and has that variant's documented
\* fields
WellFormed(d) ==
    /\ Has(d, "type")
    /\ CASE d.type \in {"SymlinkAction", "CopyAction"} ->
               Has(d, "source") /\ Has(d, "destination")
         [] d.type = "CatAction" -> Has(d, "destination") /\ Has(d, "sources")
         [] d.type = "MkdirAction" -> Has(d, "directory")
         [] OTHER -> FALSE

\* a path of a descriptor, resolved against the configured repository
Resolved(path) == get_intuitive_path(fs0, path, conf.dotfile_repo).path

\* the value of an optional field of a descriptor
FieldOr(d, k, default) == IF Has(d, k) THEN d[k] ELSE default

\* action a carries exactly the field values of descriptor d
Carries(a, d) ==
    /\ a.type = d.type
    /\ CASE d.type = "SymlinkAction" ->
               /\ a.source = Resolved(d.source)
               /\ a.destination = Resolved(d.destination)
               /\ a.dir_mode = FieldOr(d, "dir_mode", FALSE)
         [] d.type = "CopyAction" ->
               /\ a.source = Resolved(d.source)
               /\ a.destination = Resolved(d.destination)
               /\ a.dir_mode = FieldOr(d, "dir_mode", FALSE)
               /\ a.overwrite = FieldOr(d, "overwrite", FALSE)
         [] d.type = "CatAction" ->
               /\ a.destination = Resolved(d.destination)
               /\ a.sources = [i \in 1..Len(d.sources) |-> Resolved(d.sources[i])]
         [] d.type = "MkdirAction" ->
               /\ a.directory = Resolved(d.directory)
               /\ a.parents = FieldOr(d, "parents", TRUE)

\* polkadots/polkadots.py is run on a configuration whose repository exists
BuildsOnRepo ==
    opts.rev = "current" /\ Stat(fs0, conf.dotfile_repo.comps).st = "ok"

\* C16: descriptor-to-action construction.  Building never fails at a
\* descriptor that names a known variant and has its documented fields, and
\* the action built from such a descriptor carries exactly its field values
\* (a Concatenate keeps all its sources, in order).
C16_DescriptorToAction ==
    BuildsOnRepo =>
        /\ pc = "build_failed" => ~WellFormed(conf.actions[idx])
        /\ \A i \in 1..Len(actions) :
              WellFormed(conf.actions[i]) => Carries(actions[i], conf.actions[i])

\* C16 where it does hold: the constructors called by config.py (--config2),
\* and the Symlink and Copy descriptors of a JSON configuration
C16_DescriptorToActionByConstructor ==
    (opts.config2 \/ \A i \in 1..Len(conf.actions) :
                        (Has(conf.actions[i], "type")
                           => conf.actions[i].type \notin {"CatAction", "MkdirAction"}))
        => C16_DescriptorToAction


\* every entry that was not a symbolic link before the last execute is
\* still there, unchanged
RealEntriesKept ==
    \A p \in DOMAIN pre : pre[p].kind # "link" => (p \in DOMAIN fs /\ fs[p] = pre[p])

\* the paths at which the last Symlink execute was to put its links
LinkPlaces ==
    IF act.dir_mode
    THEN {Append(act.destination, n) : n \in os_listdir(pre, act.source).names}
    ELSE IF act.rev = "current" /\ IsRealDir(pre, act.destination)
         THEN {Append(act.destination, n) : n \in glob_names(pre, act.source)}
    ELSE {act.destination}

\* a real file or a real directory is at path p
IsReal(f, p) == LET w == LStat(f, p) IN w.st = "ok" /\ f[w.p].kind # "link"

\* C17: Symlink removes only links.  Whatever the mode and the revision, a
\* Symlink execute leaves every real file and real directory as it was
\* (the entries it deletes or replaces are symbolic links), and it raises
\* when a real file or directory is at a path it was to put a link at.
C17_SymlinkRemovesOnlyLinks ==
    act.type = "SymlinkAction" =>
        /\ RealEntriesKept
        /\ (\E p \in LinkPlaces : IsReal(pre, p)) => res # "ok"

\* a Symlink execute has deleted a link and put another in its place
C17_Witness ==
    /\ act.type = "SymlinkAction"
    /\ os_path_islink(pre, act.destination)
    /\ IsLinkTo(fs, act.destination, act.source)
    /\ ~IsLinkTo(pre, act.destination, act.source)

\* a real directory was in the way of a link in directory mode
C17_WitnessRealInTheWay ==
    /\ act.type = "SymlinkAction" /\ act.dir_mode /\ act.rev = "current"
    /\ \E p \in LinkPlaces : IsRealDir(pre, p)
    /\ res = "NotALink"

\* the error raised in C17 is the not-a-link error (polkadots/polkadots.py)
C17_NotALinkCurrent ==
    (act.type = "SymlinkAction" /\ act.rev = "current"
       /\ \E p \in LinkPlaces : IsReal(pre, p)) => res = "NotALink"


\* where a path written in a descriptor leads when the repository is Repo
PlaceOf(path) == get_intuitive_path(BaseFS, path, Abs(Repo)).path

UnderRepo(p) == p # <<>> /\ Head(p) = "repo"

\* the source paths and the destination paths descriptor d names
SourcesOf(d) ==
    (IF Has(d, "source") THEN {d.source} ELSE {})
    \cup (IF Has(d, "sources") THEN {d.sources[i] : i \in 1..Len(d.sources)} ELSE {})

DestinationsOf(d) ==
    (IF Has(d, "destination") THEN {d.destination} ELSE {})
    \cup (IF Has(d, "directory") THEN {d.directory} ELSE {})

\* every source of the configured list lies under the dotfile repository
\* and every destination outside it
SourcesInDestinationsOut ==
    \A i \in 1..Len(conf.actions) :
        /\ \A x \in SourcesOf(conf.actions[i]) : UnderRepo(PlaceOf(x))
        /\ \A x \in DestinationsOf(conf.actions[i]) : ~UnderRepo(PlaceOf(x))

\* every file of the dotfile repository holds what it held before the tool
\* ever ran
RepoFilesKept ==
    \A p \in DOMAIN BaseFS :
        (UnderRepo(p) /\ BaseFS[p].kind = "file") => (p \in DOMAIN fs /\ fs[p] = BaseFS[p])

\* C18: the source repository is read-only.  For an action list whose
\* sources all lie under the dotfile repository and whose destinations all
\* lie outside it, no file under the repository ever changes content.
C18_RepoReadOnly ==
    (opts.rev = "current" /\ SourcesInDestinationsOut) => RepoFilesKept

\* C18 where it does hold: no Symlink action in the list, so that no
\* destination is a link into the repository
C18_RepoReadOnlyWithoutLinks ==
    (\A i \in 1..Len(conf.actions) :
        Has(conf.actions[i], "type") => conf.actions[i].type # "SymlinkAction")
        => C18_RepoReadOnly


\* a directory-mode Symlink action of polkadots/polkadots.py ran on a
\* listable source, with a real file or directory at some destination/name
DirModeMeetsReal ==
    /\ act.type = "SymlinkAction" /\ act.dir_mode /\ act.rev = "current"
    /\ os_listdir(pre, act.source).err = "ok"
    /\ \E k \in 1..Len(ord) : IsReal(pre, Append(act.destination, ord[k]))

\* position, in the order the entries were listed in, of the first entry
\* whose destination is a real file or directory
FirstReal ==
    CHOOSE k \in 1..Len(ord) :
        /\ IsReal(pre, Append(act.destination, ord[k]))
        /\ \A j \in 1..(k - 1) : ~IsReal(pre, Append(act.destination, ord[j]))

\* the file system before the last execute with the links of the entries
\* listed before position k put in place
LinkedBefore(k) ==
    LET at(j) == LStat(pre, Append(act.destination, ord[j])).p
        links == {at(j) : j \in 1..(k - 1)}
    IN [p \in DOMAIN pre \cup links |->
           IF p \in links
           THEN LinkNode(Append(act.source, Basename(p)), FALSE)
           ELSE pre[p]]

\* C19: directory-mode Symlink is fail-fast.  When some destination/name is
\* a real file or directory, execute raises the not-a-link error at the
\* first such entry: that entry is unchanged, no entry listed after it is
\* linked, and the links made for the entries listed before it remain.
C19_DirModeFailFast ==
    DirModeMeetsReal => (res = "NotALink" /\ fs = LinkedBefore(FirstReal))

\* the second of three entries was a real file: the first is linked, the
\* third is not
C19_Witness ==
    /\ DirModeMeetsReal
    /\ Len(ord) = 3
    /\ FirstReal = 2
    /\ IsLinkTo(fs, Append(act.destination, ord[1]), Append(act.source, ord[1]))
    /\ IsAbsent(fs, Append(act.destination, ord[3]))


\* C20: LinkGuard deletes every symbolic link, a dangling one included.
\* rmlink called on a symbolic link whose target does not exist deletes the
\* link and succeeds.
C20_RmlinkDeletesDangling ==
    (act.type = "rmlink" /\ os_path_islink(pre, act.link) /\ ~os_path_exists(pre, act.link)) =>
        /\ res = "ok"
        /\ fs = Drop(pre, act.link)

\* C20 for polkadots/polkadots.py alone
C20_RmlinkDeletesDanglingCurrent ==
    act.rev = "current" => C20_RmlinkDeletesDangling

\* the consequence C20 draws: a single-mode Symlink action executed over a
\* dangling link at its destination (such as the one an earlier execute of
\* it left when its source is missing) succeeds and leaves its link
C20_SymlinkOverDangling ==
    (act.type = "SymlinkAction" /\ ~act.dir_mode
       /\ os_path_islink(pre, act.destination) /\ ~os_path_exists(pre, act.destination)) =>
        (res = "ok" /\ IsLinkTo(fs, act.destination, act.source))

\* that consequence for polkadots/polkadots.py alone
C20_SymlinkOverDanglingCurrent ==
    act.rev = "current" => C20_SymlinkOverDangling

====
